---------------------------- MODULE Spec2Model ----------------------------
(***************************************************************************)
(* A model of server/uptime-kuma-server.js: the UptimeKumaServer singleton *)
(* (getInstance / constructor), the monitor list query and its broadcast   *)
(* (getMonitorJSONList / sendMonitorList), the client address resolver     *)
(* (getClientIP) and the error log (errorLog).                             *)
(*                                                                         *)
(* JavaScript runs every synchronous stretch of code to completion, so an  *)
(* action of the model is one such stretch: a whole synchronous call, or   *)
(* the part of an async function between two awaits.                       *)
(***************************************************************************)
EXTENDS Integers, Sequences, FiniteSets, TLC

VARIABLES
    env,        \* process.env and the file system, fixed for the process
    instance,   \* UptimeKumaServer.instance: NoInstance or the id of an object
    heap,       \* the UptimeKumaServer objects whose constructor returned
    effects,    \* how often each side effect of the constructor has run
    exited,     \* whether process.exit was called, and with which code
    calls,      \* the getInstance calls so far: arguments and outcome
    store,      \* the "monitor" table: a set of rows
    conn,       \* the sockets: state and userID
    rooms,      \* socket.io rooms: room name (a userID) -> set of sockets
    tasks,      \* the sendMonitorList / getMonitorJSONList invocations
    received,   \* per socket, the events delivered to it, oldest first
    mark,       \* a moment of the run, remembered: the user's room and rows
    trustProxy, \* the "trustProxy" setting held by the settings store
    ipSocket,   \* the socket whose address is resolved
    ipTasks,    \* the getClientIP invocations
    now,        \* the time R.isoDateTime() reads
    logFile,    \* the text of <dataDir>/error.log, piece by piece
    streams,    \* the write streams of the errorLog calls, oldest first
    stderr,     \* what console.error has written, one entry per call
    infoLog     \* what log.info has written

vars == <<env, instance, heap, effects, exited, calls,
          store, conn, rooms, tasks, received, mark,
          trustProxy, ipSocket, ipTasks,
          now, logFile, streams, stderr, infoLog>>

instVars == <<env, instance, heap, effects, exited, calls>>
hubVars  == <<store, conn, rooms, tasks, received, mark>>
ipVars   == <<trustProxy, ipSocket, ipTasks>>
logVars  == <<now, logFile, streams, stderr, infoLog>>

(***************************************************************************)
(* Bounds of the model.                                                    *)
(***************************************************************************)
MaxCalls == 2       \* getInstance calls in one run
MaxMonitors == 3    \* monitor ids are 1..MaxMonitors
MaxSockets == 2     \* sockets are 1..MaxSockets, each connects once
MaxTasks == 2       \* sendMonitorList / getMonitorJSONList invocations
MaxIpTasks == 1     \* getClientIP invocations in one run, on every socket
MaxTrustCalls == 2  \* getClientIP invocations in one run, the setting changing
MaxAddrLen == 5     \* pieces of a raw address
MaxLogCalls == 2    \* errorLog calls in one run

(***************************************************************************)
(* JavaScript values.                                                      *)
(***************************************************************************)
Null == "<null>"
NoInstance == 0     \* static instance = null; objects have ids 1, 2, ...
Undefined == "<undefined>"

\* ToBoolean on the strings of the model: undefined, null and "" are falsy.
Truthy(v) == v \notin {Undefined, Null, ""}

\* a || b
JsOr(a, b) == IF Truthy(a) THEN a ELSE b

(***************************************************************************)
(* UptimeKumaServer.getInstance and the constructor.                       *)
(***************************************************************************)
Paths == {"key.pem", "alt.pem"}

\* The arguments object handed to getInstance.
Args == [ sslKey : {Undefined} \cup Paths, sslCert : {Undefined} \cup Paths ]

\* process.env, the files that can be read, and whether dist/index.html
\* can be read.
Envs == [ UPTIME_KUMA_SSL_KEY : {Undefined, "key.pem"},
          SSL_KEY : {Undefined, "alt.pem"},
          UPTIME_KUMA_SSL_CERT : {Undefined, "key.pem"},
          SSL_CERT : {Undefined, "alt.pem"},
          NODE_ENV : {Undefined, "development", "production"},
          readable : SUBSET Paths,
          indexReadable : BOOLEAN ]

NoEffects == [ express |-> 0, createServer |-> 0, readIndex |-> 0,
               registerGlobalAgent |-> 0, ioServer |-> 0 ]

\* The class field initialisers, lines 28-38.
FieldDefaults(id, args) ==
    [ id |-> id, args |-> args,
      monitorList |-> {}, entryPage |-> "dashboard",
      app |-> Undefined, io |-> Undefined,
      httpServer |-> [type |-> Undefined, key |-> Undefined, cert |-> Undefined],
      indexHTML |-> "" ]

\* The environment is asked before the arguments.
SslKeyEnvFirst(args) ==
    JsOr(env.UPTIME_KUMA_SSL_KEY, JsOr(env.SSL_KEY, JsOr(args.sslKey, Undefined)))

\* Line 49.
SslKey(args) ==
    JsOr(args.sslKey, JsOr(env.UPTIME_KUMA_SSL_KEY, JsOr(env.SSL_KEY, Undefined)))

\* Line 50.
SslCert(args) ==
    JsOr(args.sslCert, JsOr(env.UPTIME_KUMA_SSL_CERT, JsOr(env.SSL_CERT, Undefined)))

\* fs.readFileSync(path) throws when the file cannot be read.
CanRead(path) == path \in env.readable

\* dist/index.html may be missing in every mode.
IndexMissingTolerated == FALSE

\* The test of line 69: outside development a missing dist/index.html ends
\* the process.
IndexMissingIsFatal == env.NODE_ENV # "development"

\* new UptimeKumaServer(args): the outcome ("ok", "throw" or "exit"), the
\* object as far as it was built and the side effects that ran.
Construct(id, args) ==
    LET o0   == FieldDefaults(id, args)
        key  == SslKey(args)
        cert == SslCert(args)
        o1   == [o0 EXCEPT !.app = "express"]
        e1   == [NoEffects EXCEPT !.express = 1]
        tls  == Truthy(key) /\ Truthy(cert)
        o2   == [o1 EXCEPT !.httpServer =
                    IF tls THEN [type |-> "https", key |-> key, cert |-> cert]
                           ELSE [type |-> "http", key |-> Undefined, cert |-> Undefined]]
        e2   == [e1 EXCEPT !.createServer = 1]
        o3   == IF env.indexReadable THEN [o2 EXCEPT !.indexHTML = "<html>"] ELSE o2
        e3   == [e2 EXCEPT !.readIndex = 1]
        o4   == [o3 EXCEPT !.io = "io"]
        e4   == [e3 EXCEPT !.registerGlobalAgent = 1, !.ioServer = 1]
    IN  IF tls /\ ~(CanRead(key) /\ CanRead(cert))
        THEN [outcome |-> "throw", obj |-> o1, eff |-> e1]
        ELSE IF ~env.indexReadable /\ IndexMissingIsFatal
        THEN [outcome |-> "exit", obj |-> o2, eff |-> e3]
        ELSE [outcome |-> "ok", obj |-> o4, eff |-> e4]

AddEffects(a, b) == [k \in DOMAIN a |-> a[k] + b[k]]

\* A getInstance that constructs on every call.
AlwaysConstruct == TRUE

\* The test of line 41.
NeedsConstruction == instance = NoInstance

\* One call of getInstance(args), from the call to its return, throw or
\* the exit of the process.
GetInstance(args) ==
    /\ ~exited.done
    /\ Len(calls) < MaxCalls
    /\ IF NeedsConstruction
       THEN LET c == Construct(Len(heap) + 1, args) IN
            /\ effects' = AddEffects(effects, c.eff)
            /\ IF c.outcome = "ok"
               THEN /\ heap' = Append(heap, c.obj)
                    /\ instance' = c.obj.id
                    /\ exited' = exited
                    /\ calls' = Append(calls, [args |-> args, outcome |-> "returned",
                                               ret |-> c.obj.id, constructed |-> TRUE])
               ELSE /\ UNCHANGED <<heap, instance>>
                    /\ exited' = IF c.outcome = "exit"
                                  THEN [done |-> TRUE, code |-> 1] ELSE exited
                    /\ calls' = Append(calls, [args |-> args, outcome |-> c.outcome,
                                               ret |-> NoInstance, constructed |-> FALSE])
       ELSE /\ calls' = Append(calls, [args |-> args, outcome |-> "returned",
                                       ret |-> instance, constructed |-> FALSE])
            /\ UNCHANGED <<heap, instance, effects, exited>>
    /\ UNCHANGED <<env>>
    /\ UNCHANGED hubVars
    /\ UNCHANGED ipVars
    /\ UNCHANGED logVars

(***************************************************************************)
(* The monitor table and R.find.                                           *)
(***************************************************************************)
Users == {"u1", "u2"}
MonitorIds == 1..MaxMonitors
Names == <<"a", "b", "c">>
Weights == {5, 9}

NameSet == {Names[i] : i \in DOMAIN Names}

\* The position of a name in the order SQL compares names by.
NameRank(n) == CHOOSE i \in DOMAIN Names : Names[i] = n

MonitorFields == [ user_id : Users, name : NameSet, weight : Weights ]

\* The tables whose rows have the ids given: sets of rows in which id is a
\* key.
StoresOver(ids) ==
    { { [ id |-> i, user_id |-> f[i].user_id, name |-> f[i].name,
          weight |-> f[i].weight ] : i \in ids } : f \in [ids -> MonitorFields] }

\* The rows the WHERE clause of line 96 selects, with no user filter.
AllRows(userID) == store

\* The rows the WHERE clause of line 96 selects: user_id = ?
RowsOf(userID) == { r \in store : r.user_id = userID }

\* ORDER BY weight, name: the lighter row first.
BeforeWeightAscending(r1, r2) ==
    \/ r1.weight < r2.weight
    \/ r1.weight = r2.weight /\ NameRank(r1.name) < NameRank(r2.name)

\* ORDER BY weight DESC, name: r1 must come before r2.
Before(r1, r2) ==
    \/ r1.weight > r2.weight
    \/ r1.weight = r2.weight /\ NameRank(r1.name) < NameRank(r2.name)

\* The enumerations of S that ORDER BY allows; rows equal in weight and
\* name may come in any order.
SortedSeqs(S) ==
    { q \in [1..Cardinality(S) -> S] :
        /\ \A i, j \in DOMAIN q : i # j => q[i] # q[j]
        /\ \A i, j \in DOMAIN q : i < j => ~Before(q[j], q[i]) }

\* The possible results of R.find("monitor", " user_id = ? ORDER BY weight
\* DESC, name", [userID]).
FindResults(userID) == SortedSeqs(RowsOf(userID))

\* monitor.toJSON(): the transport form of a bean.
ToJSON(bean) == [ id |-> bean.id, name |-> bean.name, weight |-> bean.weight ]

(***************************************************************************)
(* JavaScript objects with integer keys, as result of line 94 is.          *)
(***************************************************************************)
EmptyObject == [ k \in {} |-> Null ]

\* obj[k] = v
ObjectSet(obj, k, v) ==
    [ x \in DOMAIN obj \cup {k} |-> IF x = k THEN v ELSE obj[x] ]

RECURSIVE Ascending(_)
Ascending(S) ==
    IF S = {} THEN << >>
    ELSE LET m == CHOOSE x \in S : \A y \in S : x <= y
         IN  <<m>> \o Ascending(S \ {m})

\* Object.keys(obj), the order in which the object is enumerated and
\* serialised: integer keys come in ascending numeric order, whatever the
\* order they were set in.
ObjectKeys(obj) == Ascending(DOMAIN obj)

(***************************************************************************)
(* Sockets, rooms, and the invocations of sendMonitorList and              *)
(* getMonitorJSONList.                                                     *)
(***************************************************************************)
Sockets == 1..MaxSockets

Errors == {"E_STORE", "E_JSON"}

NewTask(kind, socket, userID) ==
    [ kind |-> kind, socket |-> socket, userID |-> userID,
      pc |-> "find",            \* "find", "toJSON", "returned", "rejected"
      beans |-> << >>,          \* monitorList of line 96
      idx |-> 0,                \* the bean of the loop of line 100
      result |-> EmptyObject,   \* result of line 94
      ret |-> EmptyObject,      \* the value the call resolved with
      error |-> Null,           \* the error the call rejected with
      raised |-> Null,          \* the error the collaborator raised
      finds |-> 1,              \* R.find calls made
      roomAtEmit |-> {},        \* the user's room at line 82
      fetched |-> << >>,        \* what R.find answered
      snapshot |-> {} ]         \* the user's rows when R.find answered

\* Sockets connect in the order of their numbers.
Connect(s, u) ==
    /\ conn[s].state = "new"
    /\ \A q \in Sockets : q < s => conn[q].state # "new"
    /\ conn' = [conn EXCEPT ![s] = [state |-> "connected", userID |-> u]]
    /\ rooms' = [rooms EXCEPT ![u] = @ \cup {s}]
    /\ UNCHANGED <<store, tasks, received, mark>>
    /\ UNCHANGED instVars
    /\ UNCHANGED ipVars
    /\ UNCHANGED logVars

Disconnect(s) ==
    /\ conn[s].state = "connected"
    /\ conn' = [conn EXCEPT ![s].state = "closed"]
    /\ rooms' = [u \in Users |-> rooms[u] \ {s}]
    /\ UNCHANGED <<store, tasks, received, mark>>
    /\ UNCHANGED instVars
    /\ UNCHANGED ipVars
    /\ UNCHANGED logVars

\* io.emit: every socket, whatever its room.
RecipientsAll(task) == UNION { rooms[u] : u \in Users }

\* socket.emit: the requesting socket alone.
RecipientsSelf(task) == {task.socket} \cap rooms[task.userID]

\* The room and, in or out of it, the requesting socket.
RecipientsAndRequester(task) == rooms[task.userID] \cup {task.socket}

\* io.to(socket.userID), line 82: the sockets in the room named by the
\* userID.
Recipients(task) == rooms[task.userID]

\* The locals of a call that has ended are gone.
Ended(task) == [task EXCEPT !.beans = << >>, !.idx = 0, !.result = EmptyObject]

\* The error is swallowed and the call goes on with what it has.
Swallowed(task, err) == Ended([task EXCEPT !.pc = "returned", !.ret = task.result])

\* An awaited promise rejects (lines 81, 96, 101): no try/catch, so the
\* call rejects with the same error.
Rejected(task, err) == Ended([task EXCEPT !.pc = "rejected", !.error = err])

\* return result (line 104), and for sendMonitorList lines 82-83.
Returned(task) == Ended([task EXCEPT !.pc = "returned", !.ret = task.result])

\* The state of invocation t becomes nt; a sendMonitorList that got its
\* list emits it (line 82).
Settle(t, nt) ==
    IF nt.pc = "returned" /\ nt.kind = "send"
    THEN /\ tasks' = [tasks EXCEPT ![t] = [nt EXCEPT !.roomAtEmit = rooms[nt.userID]]]
         /\ received' = [ s \in Sockets |->
                IF s \in Recipients(nt)
                THEN Append(received[s], [event |-> "monitorList",
                                          payload |-> nt.ret, task |-> t])
                ELSE received[s] ]
    ELSE /\ tasks' = [tasks EXCEPT ![t] = nt]
         /\ UNCHANGED received

\* sendMonitorList(socket) up to the await of line 96.
SendMonitorList(s) ==
    /\ conn[s].state = "connected"
    /\ Len(tasks) < MaxTasks
    /\ tasks' = Append(tasks, NewTask("send", s, conn[s].userID))
    /\ UNCHANGED <<store, conn, rooms, received, mark>>
    /\ UNCHANGED instVars
    /\ UNCHANGED ipVars
    /\ UNCHANGED logVars

\* getMonitorJSONList(userID), called on its own (socket 0: none), up to the
\* await of line 96.
GetMonitorJSONList(u) ==
    /\ tasks = << >>
    /\ tasks' = Append(tasks, NewTask("get", 0, u))
    /\ UNCHANGED <<store, conn, rooms, received, mark>>
    /\ UNCHANGED instVars
    /\ UNCHANGED ipVars
    /\ UNCHANGED logVars

\* R.find answers: line 96 resumes, and runs to the first await of line
\* 101, or to the end when there is no monitor.
FindResolve(t) ==
    /\ tasks[t].pc = "find"
    /\ \E beans \in FindResults(tasks[t].userID) :
          LET t1 == [tasks[t] EXCEPT !.beans = beans, !.fetched = beans,
                                     !.snapshot = RowsOf(tasks[t].userID)]
          IN  IF beans = << >>
              THEN Settle(t, Returned(t1))
              ELSE Settle(t, [t1 EXCEPT !.pc = "toJSON", !.idx = 1])
    /\ UNCHANGED <<store, conn, rooms, mark>>
    /\ UNCHANGED instVars
    /\ UNCHANGED ipVars
    /\ UNCHANGED logVars

\* R.find fails.
FindReject(t) ==
    /\ tasks[t].pc = "find"
    /\ Settle(t, Rejected([tasks[t] EXCEPT !.raised = "E_STORE"], "E_STORE"))
    /\ UNCHANGED <<store, conn, rooms, mark>>
    /\ UNCHANGED instVars
    /\ UNCHANGED ipVars
    /\ UNCHANGED logVars

\* The loop ends after the first monitor.
LoopDoneAtOnce(task) == TRUE

\* The for...of of line 100 is done when the last bean was serialised.
LoopDone(task) == task.idx = Len(task.beans)

\* The monitor is read from the table again when its turn comes.
BeanRead(task) ==
    LET id == task.beans[task.idx].id
    IN  IF \E r \in store : r.id = id
        THEN CHOOSE r \in store : r.id = id
        ELSE task.beans[task.idx]

\* The monitor of the for...of of line 100: the next bean of the list that
\* R.find answered at line 96.
BeanAt(task) == task.beans[task.idx]

\* monitor.toJSON() answers: line 101 stores it and the loop goes on to the
\* next await, or to the end.
ToJSONResolve(t) ==
    /\ tasks[t].pc = "toJSON"
    /\ LET task == tasks[t]
           bean == BeanAt(task)
           t1   == [task EXCEPT !.result = ObjectSet(task.result, bean.id, ToJSON(bean))]
       IN  IF LoopDone(task)
           THEN Settle(t, Returned(t1))
           ELSE Settle(t, [t1 EXCEPT !.idx = task.idx + 1])
    /\ UNCHANGED <<store, conn, rooms, mark>>
    /\ UNCHANGED instVars
    /\ UNCHANGED ipVars
    /\ UNCHANGED logVars

\* monitor.toJSON() fails.
ToJSONReject(t) ==
    /\ tasks[t].pc = "toJSON"
    /\ Settle(t, Rejected([tasks[t] EXCEPT !.raised = "E_JSON"], "E_JSON"))
    /\ UNCHANGED <<store, conn, rooms, mark>>
    /\ UNCHANGED instVars
    /\ UNCHANGED ipVars
    /\ UNCHANGED logVars

\* A monitor is deleted while the server runs.
DeleteMonitor(id) ==
    /\ \E r \in store : r.id = id
    /\ store' = { r \in store : r.id # id }
    /\ UNCHANGED <<conn, rooms, tasks, received, mark>>
    /\ UNCHANGED instVars
    /\ UNCHANGED ipVars
    /\ UNCHANGED logVars

\* A monitor is edited while the server runs: its weight is raised.
EditMonitor(id, weight) ==
    /\ \E r \in store : r.id = id /\ r.weight < weight
    /\ store' = { IF r.id = id THEN [r EXCEPT !.weight = weight] ELSE r : r \in store }
    /\ UNCHANGED <<conn, rooms, tasks, received, mark>>
    /\ UNCHANGED instVars
    /\ UNCHANGED ipVars
    /\ UNCHANGED logVars

\* The invocations of a user that are suspended.
InFlight(u) ==
    { t \in DOMAIN tasks : tasks[t].userID = u /\ tasks[t].pc \in {"find", "toJSON"} }

\* A moment at which invocations of user u are in flight, none of them
\* with its query answered yet, is remembered, once in a run: the user's
\* room and rows, the invocations in flight and the number of invocations
\* called so far.
Remember(u) ==
    /\ ~mark.set
    /\ InFlight(u) # {}
    /\ \A t \in InFlight(u) : tasks[t].pc = "find"
    /\ mark' = [ set |-> TRUE, userID |-> u, room |-> rooms[u], rows |-> RowsOf(u),
                 inFlight |-> InFlight(u), called |-> Len(tasks) ]
    /\ UNCHANGED <<store, conn, rooms, tasks, received>>
    /\ UNCHANGED instVars
    /\ UNCHANGED ipVars
    /\ UNCHANGED logVars

(***************************************************************************)
(* getClientIP.  A string is the sequence of its pieces; a piece is ":" or *)
(* a run of characters without a colon.                                    *)
(***************************************************************************)
Pieces == {":", "ffff", "10.0.0.5"}

Str(q) == [ t |-> "string", s |-> q ]
Undef == [ t |-> "undefined", s |-> << >> ]

\* ToBoolean of a string or undefined: undefined and "" are falsy.
TruthyV(v) == v.t = "string" /\ v.s # << >>

\* a || b
OrV(a, b) == IF TruthyV(a) THEN a ELSE b

RawStrings == UNION { [1..n -> Pieces] : n \in 0..MaxAddrLen }

RawAddresses == {Undef} \cup { Str(q) : q \in RawStrings }

HeaderValues == { Undef, Str(<< >>), Str(<<"1.2.3.4">>), Str(<<"5.6.7.8">>) }

\* socket.client.conn: remoteAddress and request.headers.
IpSockets == [ remoteAddress : RawAddresses,
               xForwardedFor : HeaderValues, xRealIp : HeaderValues ]

\* q.replace(/^.*:/, ""): the greedy match ends at the last colon; without
\* a colon nothing is replaced.
StripToLastColon(q) ==
    LET colons == { i \in DOMAIN q : q[i] = ":" }
    IN  IF colons = {} THEN q
        ELSE LET last == CHOOSE i \in colons : \A j \in colons : j <= i
             IN  SubSeq(q, last + 1, Len(q))

\* The headers are honoured whatever the setting says.
ResolveIgnoringTrust(sock, clientIP, trust) ==
    OrV(sock.xForwardedFor, OrV(sock.xRealIp, clientIP))

\* x-real-ip is looked at before x-forwarded-for.
ResolveRealIpFirst(sock, clientIP, trust) ==
    IF trust
    THEN OrV(sock.xRealIp, OrV(sock.xForwardedFor, clientIP))
    ELSE clientIP

\* Lines 136-142: the address returned once the setting is known.
Resolve(sock, clientIP, trust) ==
    IF trust
    THEN OrV(sock.xForwardedFor, OrV(sock.xRealIp, clientIP))
    ELSE clientIP

\* getClientIP(socket) up to the await of line 136.  Line 134 calls
\* replace on remoteAddress, which throws a TypeError when remoteAddress
\* is undefined: the promise of the async function rejects.
GetClientIPWithin(limit) ==
    /\ Len(ipTasks) < limit
    /\ ipTasks' = Append(ipTasks,
          IF ipSocket.remoteAddress.t = "undefined"
          THEN [ pc |-> "rejected", clientIP |-> Undef, trust |-> FALSE,
                 held |-> FALSE, ret |-> Undef, error |-> "TypeError" ]
          ELSE [ pc |-> "await",
                 clientIP |-> Str(StripToLastColon(ipSocket.remoteAddress.s)),
                 trust |-> FALSE, held |-> FALSE, ret |-> Undef, error |-> Null ])
    /\ UNCHANGED <<trustProxy, ipSocket>>
    /\ UNCHANGED instVars
    /\ UNCHANGED hubVars
    /\ UNCHANGED logVars

GetClientIP == GetClientIPWithin(MaxIpTasks)

\* The value that the first call to return had read is used again.
TrustCached ==
    LET returned == { t \in DOMAIN ipTasks : ipTasks[t].pc = "returned" }
    IN  IF returned = {} THEN trustProxy
        ELSE ipTasks[CHOOSE t \in returned : \A q \in returned : t <= q].trust

\* await Settings.get("trustProxy"), line 136: every call asks the
\* settings store, which answers with the value it holds.
TrustRead == trustProxy

\* Settings.get("trustProxy") answers, and getClientIP returns.  held is
\* the value the settings store holds at this moment.
GetClientIPResume(t) ==
    /\ ipTasks[t].pc = "await"
    /\ ipTasks' = [ipTasks EXCEPT ![t] =
          [ipTasks[t] EXCEPT !.pc = "returned", !.trust = TrustRead,
                             !.held = trustProxy,
                             !.ret = Resolve(ipSocket, ipTasks[t].clientIP, TrustRead)]]
    /\ UNCHANGED <<trustProxy, ipSocket>>
    /\ UNCHANGED instVars
    /\ UNCHANGED hubVars
    /\ UNCHANGED logVars

\* The setting is changed at runtime.
SetTrustProxy(v) ==
    /\ trustProxy # v
    /\ trustProxy' = v
    /\ UNCHANGED <<ipSocket, ipTasks>>
    /\ UNCHANGED instVars
    /\ UNCHANGED hubVars
    /\ UNCHANGED logVars

(***************************************************************************)
(* errorLog.  A text is the sequence of its pieces; the piece "\n" is a    *)
(* line break.                                                             *)
(***************************************************************************)
\* The readings of the clock, in the form of R.isoDateTime().
Times == << "2022-10-01 10:00:00", "2022-10-01 10:00:01" >>

\* R.isoDateTime(): the time of the call, as text.
IsoDateTime == Times[now]

\* The values handed to errorLog: a string, and an Error object, which
\* carries its message and the frames of its stack.
LogErrors ==
    { [ t |-> "string", text |-> <<"boom">>, frames |-> << >> ],
      [ t |-> "Error", text |-> <<"Error: boom">>,
        frames |-> << "    at main (server.js:1:1)" >> ] }

RECURSIVE StackFrames(_)
StackFrames(frames) ==
    IF frames = << >> THEN << >>
    ELSE <<"\n", Head(frames)>> \o StackFrames(Tail(frames))

\* util.format(error) with one argument: a string is returned as it is, an
\* Error is rendered as its stack, the message line and one line per
\* frame.
Format(error) ==
    IF error.t = "string" THEN error.text
    ELSE error.text \o StackFrames(error.frames)

\* The text of line 122.
LogLine(dateTime, error) == <<"[", dateTime, "] ">> \o Format(error) \o <<"\n">>

\* The 'error' event of a stream without a listener is thrown: an uncaught
\* exception.
Unhandled(stream) == [stream EXCEPT !.state = "failed", !.uncaught = TRUE]

\* The 'error' event of the stream runs the listener of lines 114-116.
Handled(stream) == [stream EXCEPT !.state = "failed", !.reported = TRUE]

\* flags "w": opening the file empties it.
Truncated(file) == << >>

\* flags "a", line 113: opening the file leaves its content alone, and
\* every write goes to its end.
Opened(file) == file

\* errorLog(error, outputToConsole), from the call to its return.
\* fs.createWriteStream returns a stream at once and opens the file later
\* (the stream is an object, so the test of line 118 holds); write queues
\* the line, console.error writes the error to stderr, and end closes the
\* stream once the line is flushed.
ErrorLog(error, outputToConsole) ==
    /\ Len(streams) < MaxLogCalls
    /\ streams' = Append(streams,
          [ error |-> error, outputToConsole |-> outputToConsole,
            dateTime |-> IsoDateTime,
            state |-> "opening",   \* "opening", "open", "written", "closed", "failed"
            queued |-> LogLine(IsoDateTime, error),
            ended |-> TRUE,
            at |-> 0,              \* where in the file the line was written
            handle |-> FALSE,      \* whether the stream holds an open file handle
            outcome |-> "returned",
            reported |-> FALSE, uncaught |-> FALSE ])
    /\ stderr' = IF outputToConsole THEN Append(stderr, Format(error)) ELSE stderr
    /\ UNCHANGED <<now, logFile, infoLog>>
    /\ UNCHANGED instVars
    /\ UNCHANGED hubVars
    /\ UNCHANGED ipVars

\* The stream fails: 'error' is emitted, and a handle that is open is
\* closed (autoClose).
StreamError(i) ==
    LET st == [Handled(streams[i]) EXCEPT !.handle = FALSE]
    IN  /\ streams' = [streams EXCEPT ![i] = st]
        /\ infoLog' = IF st.reported
                      THEN Append(infoLog, [module |-> "", msg |-> "Cannot write to error.log"])
                      ELSE infoLog

\* The file is opened.
StreamOpen(i) ==
    /\ streams[i].state = "opening"
    /\ streams' = [streams EXCEPT ![i].state = "open", ![i].handle = TRUE]
    /\ logFile' = Opened(logFile)
    /\ UNCHANGED <<now, stderr, infoLog>>
    /\ UNCHANGED instVars
    /\ UNCHANGED hubVars
    /\ UNCHANGED ipVars

\* The file cannot be opened.
StreamOpenFail(i) ==
    /\ streams[i].state = "opening"
    /\ StreamError(i)
    /\ UNCHANGED <<now, logFile, stderr>>
    /\ UNCHANGED instVars
    /\ UNCHANGED hubVars
    /\ UNCHANGED ipVars

\* The queued line is written, at the end of the file.
StreamWrite(i) ==
    /\ streams[i].state = "open"
    /\ logFile' = logFile \o streams[i].queued
    /\ streams' = [streams EXCEPT ![i].state = "written", ![i].at = Len(logFile) + 1]
    /\ UNCHANGED <<now, stderr, infoLog>>
    /\ UNCHANGED instVars
    /\ UNCHANGED hubVars
    /\ UNCHANGED ipVars

\* The write fails.
StreamWriteFail(i) ==
    /\ streams[i].state = "open"
    /\ StreamError(i)
    /\ UNCHANGED <<now, logFile, stderr>>
    /\ UNCHANGED instVars
    /\ UNCHANGED hubVars
    /\ UNCHANGED ipVars

\* The stream, ended at line 130 and flushed, closes its handle.
StreamClose(i) ==
    /\ streams[i].state = "written"
    /\ streams[i].ended
    /\ streams' = [streams EXCEPT ![i].state = "closed", ![i].handle = FALSE]
    /\ UNCHANGED <<now, logFile, stderr, infoLog>>
    /\ UNCHANGED instVars
    /\ UNCHANGED hubVars
    /\ UNCHANGED ipVars

\* Time passes.
Tick ==
    /\ now < Len(Times)
    /\ now' = now + 1
    /\ UNCHANGED <<logFile, streams, stderr, infoLog>>
    /\ UNCHANGED instVars
    /\ UNCHANGED hubVars
    /\ UNCHANGED ipVars

(***************************************************************************)
(* Initial states and specifications.                                      *)
(***************************************************************************)
\* No getInstance call was made yet.
InstInit ==
    /\ env \in Envs
    /\ instance = NoInstance
    /\ heap = << >>
    /\ effects = NoEffects
    /\ exited = [done |-> FALSE, code |-> 0]
    /\ calls = << >>

PlainArgs == [ sslKey |-> Undefined, sslCert |-> Undefined ]

PlainEnv ==
    [ UPTIME_KUMA_SSL_KEY |-> Undefined, SSL_KEY |-> Undefined,
      UPTIME_KUMA_SSL_CERT |-> Undefined, SSL_CERT |-> Undefined,
      NODE_ENV |-> "production", readable |-> {}, indexReadable |-> TRUE ]

\* getInstance was called once, without TLS material, and returned.
InstReady ==
    /\ env = PlainEnv
    /\ instance = 1
    /\ heap = << Construct(1, PlainArgs).obj >>
    /\ effects = Construct(1, PlainArgs).eff
    /\ exited = [done |-> FALSE, code |-> 0]
    /\ calls = << [args |-> PlainArgs, outcome |-> "returned",
                   ret |-> 1, constructed |-> TRUE] >>

\* No moment is remembered.
NoMark == [ set |-> FALSE, userID |-> "u1", room |-> {}, rows |-> {},
            inFlight |-> {}, called |-> 0 ]

\* No socket is connected and nothing is in flight.
HubIdle ==
    /\ conn = [ s \in Sockets |-> [state |-> "new", userID |-> Null] ]
    /\ rooms = [ u \in Users |-> {} ]
    /\ tasks = << >>
    /\ received = [ s \in Sockets |-> << >> ]
    /\ mark = NoMark

IpIdle ==
    /\ trustProxy = FALSE
    /\ ipSocket = [ remoteAddress |-> Undef, xForwardedFor |-> Undef, xRealIp |-> Undef ]
    /\ ipTasks = << >>

\* errorLog was not called yet.
LogIdle ==
    /\ now = 1
    /\ logFile = << >>
    /\ streams = << >>
    /\ stderr = << >>
    /\ infoLog = << >>

\* Monitors of two users.
SharedStore ==
    { [id |-> 1, user_id |-> "u1", name |-> "b", weight |-> 5],
      [id |-> 2, user_id |-> "u2", name |-> "a", weight |-> 9],
      [id |-> 3, user_id |-> "u1", name |-> "c", weight |-> 9] }

\* The singleton: getInstance calls under every environment.
InitInstance == InstInit /\ store = {} /\ HubIdle /\ IpIdle /\ LogIdle

NextInstance == \E args \in Args : GetInstance(args)

SpecInstance == InitInstance /\ [][NextInstance]_vars

\* The query: one getMonitorJSONList on every content of the table.
InitQuery ==
    /\ InstReady /\ HubIdle /\ IpIdle /\ LogIdle
    /\ \E ids \in SUBSET MonitorIds : store \in StoresOver(ids)

NextQuery ==
    \/ \E u \in Users : GetMonitorJSONList(u)
    \/ \E t \in DOMAIN tasks : FindResolve(t)
    \/ \E t \in DOMAIN tasks : FindReject(t)
    \/ \E t \in DOMAIN tasks : ToJSONResolve(t)
    \/ \E t \in DOMAIN tasks : ToJSONReject(t)

SpecQuery == InitQuery /\ [][NextQuery]_vars

\* The hub: sockets come and go and sendMonitorList invocations run side
\* by side.
Init == InstReady /\ store = SharedStore /\ HubIdle /\ IpIdle /\ LogIdle

Next ==
    \/ \E s \in Sockets, u \in Users : Connect(s, u)
    \/ \E s \in Sockets : Disconnect(s)
    \/ \E s \in Sockets : SendMonitorList(s)
    \/ \E t \in DOMAIN tasks : FindResolve(t)
    \/ \E t \in DOMAIN tasks : FindReject(t)
    \/ \E t \in DOMAIN tasks : ToJSONResolve(t)
    \/ \E t \in DOMAIN tasks : ToJSONReject(t)

Spec == Init /\ [][Next]_vars

\* The race: the sessions of one user join and ask for the list side by
\* side while the user's monitors are edited and deleted.
RaceStore == { r \in SharedStore : r.user_id = "u1" }

InitRace == InstReady /\ store = RaceStore /\ HubIdle /\ IpIdle /\ LogIdle

NextRace ==
    \/ \E s \in Sockets : Connect(s, "u1")
    \/ \E s \in Sockets : SendMonitorList(s)
    \/ \E t \in DOMAIN tasks : FindResolve(t)
    \/ \E t \in DOMAIN tasks : FindReject(t)
    \/ \E t \in DOMAIN tasks : ToJSONResolve(t)
    \/ \E id \in MonitorIds : DeleteMonitor(id)
    \/ \E id \in MonitorIds, weight \in Weights : EditMonitor(id, weight)

SpecRace == InitRace /\ [][NextRace]_vars

\* The convergence: as the race, with one moment of the run remembered.
NextConverge ==
    \/ \E s \in Sockets : Connect(s, "u1")
    \/ \E s \in Sockets : SendMonitorList(s)
    \/ \E t \in DOMAIN tasks : FindResolve(t)
    \/ \E t \in DOMAIN tasks : FindReject(t)
    \/ \E t \in DOMAIN tasks : ToJSONResolve(t)
    \/ \E id \in MonitorIds, weight \in Weights : EditMonitor(id, weight)
    \/ \E u \in Users : Remember(u)

SpecConverge == InitRace /\ [][NextConverge]_vars

\* The resolver: getClientIP on every socket, the setting changing at
\* runtime.
InitIP ==
    /\ InstReady /\ store = {} /\ HubIdle
    /\ trustProxy \in BOOLEAN
    /\ ipSocket \in IpSockets
    /\ ipTasks = << >>
    /\ LogIdle

NextIP ==
    \/ GetClientIP
    \/ \E t \in DOMAIN ipTasks : GetClientIPResume(t)
    \/ \E v \in BOOLEAN : SetTrustProxy(v)

SpecIP == InitIP /\ [][NextIP]_vars

\* The setting: several getClientIP calls on one socket behind a proxy,
\* the setting changing between and during them.
TrustSockets ==
    { [ remoteAddress |-> Str(<<":", ":", "ffff", ":", "10.0.0.5">>),
        xForwardedFor |-> h1, xRealIp |-> h2 ] :
      h1 \in HeaderValues, h2 \in HeaderValues }

InitTrust ==
    /\ InstReady /\ store = {} /\ HubIdle /\ LogIdle
    /\ trustProxy \in BOOLEAN
    /\ ipSocket \in TrustSockets
    /\ ipTasks = << >>

NextTrust ==
    \/ GetClientIPWithin(MaxTrustCalls)
    \/ \E t \in DOMAIN ipTasks : GetClientIPResume(t)
    \/ \E v \in BOOLEAN : SetTrustProxy(v)

SpecTrust == InitTrust /\ [][NextTrust]_vars

\* The error log: errorLog calls side by side, the file failing or not.
OldLines == { << >>, <<"[", "2022-09-30 23:59:59", "] ", "old", "\n">> }

InitLog ==
    /\ InstReady /\ store = {} /\ HubIdle /\ IpIdle
    /\ now = 1
    /\ logFile \in OldLines
    /\ streams = << >>
    /\ stderr = << >>
    /\ infoLog = << >>

StreamStep(i) ==
    \/ StreamOpen(i)
    \/ StreamOpenFail(i)
    \/ StreamWrite(i)
    \/ StreamWriteFail(i)
    \/ StreamClose(i)

NextLog ==
    \/ \E error \in LogErrors, outputToConsole \in BOOLEAN : ErrorLog(error, outputToConsole)
    \/ \E i \in DOMAIN streams : StreamOpen(i)
    \/ \E i \in DOMAIN streams : StreamOpenFail(i)
    \/ \E i \in DOMAIN streams : StreamWrite(i)
    \/ \E i \in DOMAIN streams : StreamWriteFail(i)
    \/ \E i \in DOMAIN streams : StreamClose(i)
    \/ Tick

SpecLog == InitLog /\ [][NextLog]_vars

\* The event loop runs every I/O completion that is due.
SpecLogFair == SpecLog /\ WF_vars(\E i \in DOMAIN streams : StreamStep(i))

\* The whole core: getInstance calls, and on the instance, once there is
\* one, a sendMonitorList or a getMonitorJSONList and a getClientIP; an
\* errorLog, which is static, at any time.
FrameArgs == { PlainArgs, [sslKey |-> "key.pem", sslCert |-> "alt.pem"] }

InitFrame ==
    /\ InstInit /\ env = PlainEnv
    /\ store = SharedStore /\ HubIdle /\ LogIdle
    /\ trustProxy = TRUE
    /\ ipSocket = [ remoteAddress |-> Str(<<":", ":", "ffff", ":", "10.0.0.5">>),
                    xForwardedFor |-> Str(<<"1.2.3.4">>), xRealIp |-> Undef ]
    /\ ipTasks = << >>

NextFrame ==
    \/ \E args \in FrameArgs : GetInstance(args)
    \/ instance # NoInstance /\ Connect(1, "u2")
    \/ instance # NoInstance /\ tasks = << >> /\ SendMonitorList(1)
    \/ instance # NoInstance /\ GetMonitorJSONList("u1")
    \/ \E t \in DOMAIN tasks : FindResolve(t)
    \/ \E t \in DOMAIN tasks : ToJSONResolve(t)
    \/ instance # NoInstance /\ ipTasks = << >> /\ GetClientIP
    \/ \E t \in DOMAIN ipTasks : GetClientIPResume(t)
    \/ streams = << >> /\ ErrorLog(CHOOSE e \in LogErrors : e.t = "Error", TRUE)
    \/ \E i \in DOMAIN streams : StreamOpen(i)
    \/ \E i \in DOMAIN streams : StreamWrite(i)
    \/ \E i \in DOMAIN streams : StreamClose(i)

SpecFrame == InitFrame /\ [][NextFrame]_vars

(***************************************************************************)
(* The singleton.                                                          *)
(***************************************************************************)
Returned1(i) == calls[i].outcome = "returned"

\* C1, as stated: every getInstance call that returns, returns one and the
\* same instance, and that instance was constructed by the first call, from
\* the first call's config.
C1_FirstCallConstructs ==
    \A i \in DOMAIN calls :
        Returned1(i) =>
            /\ calls[i].ret = instance
            /\ calls[1].constructed
            /\ heap[calls[i].ret].args = calls[1].args

\* C1, amended: every getInstance call that returns, returns one and the
\* same instance; it was constructed by the first call whose construction
\* completed, from that call's config, and every later call returns it and
\* ignores its own config.  (A call whose construction throws leaves no
\* instance behind, and the next call constructs from its own config.)
C1_Singleton ==
    /\ Len(heap) <= 1
    /\ \A i \in DOMAIN calls :
          Returned1(i) =>
              LET k == CHOOSE j \in DOMAIN calls :
                           Returned1(j) /\ \A m \in 1..(j - 1) : ~Returned1(m)
              IN  /\ calls[i].ret = calls[k].ret
                  /\ calls[i].ret = instance
                  /\ calls[k].constructed
                  /\ heap[calls[i].ret].args = calls[k].args
                  /\ i > k => ~calls[i].constructed

\* Two calls with different configs have returned.
C1_Witness ==
    /\ Len(calls) >= 2
    /\ Returned1(1) /\ Returned1(2)
    /\ calls[1].args # calls[2].args

\* C2, as stated: whatever the calls, no side effect of the construction
\* happens more than once.
C2_EffectsAtMostOnce ==
    \A k \in DOMAIN effects : effects[k] <= 1

\* C2, amended: a construction that completes happens at most once (the
\* agent is registered and the socket hub attached at most once, one object
\* is ever made the instance), and once the instance is set no getInstance
\* call, whatever its config, runs any side effect of the construction.  (A
\* construction that throws has run its first side effects, and the next
\* call runs them again.)
C2_ConstructOnce ==
    /\ [](/\ effects.ioServer <= 1
          /\ effects.registerGlobalAgent <= 1
          /\ Len(heap) <= 1
          /\ instance # NoInstance =>
                effects.ioServer = 1 /\ effects.registerGlobalAgent = 1)
    /\ [][instance # NoInstance =>
             effects' = effects /\ heap' = heap /\ instance' = instance]_vars

\* getInstance was called again, with another config, after the instance
\* was set.
C2_Witness ==
    /\ instance # NoInstance
    /\ \E i \in DOMAIN calls :
          /\ Returned1(i) /\ ~calls[i].constructed
          /\ calls[i].args # heap[instance].args
          /\ effects.ioServer = 1

(***************************************************************************)
(* The hub.                                                                *)
(***************************************************************************)
Done(t) == tasks[t].pc = "returned"
Failed(t) == tasks[t].pc = "rejected"

\* The events socket s got from invocation t.
From(s, t) == { i \in DOMAIN received[s] : received[s][i].task = t }

\* C3: room isolation.  Whatever the connects, disconnects and
\* sendMonitorList calls, every "monitorList" event a socket got was emitted
\* by a sendMonitorList on a session of the socket's own user.
C3_RoomIsolation ==
    \A s \in Sockets : \A i \in DOMAIN received[s] :
        /\ received[s][i].event = "monitorList"
        /\ tasks[received[s][i].task].userID = conn[s].userID

\* Sessions of two users are connected and each has got a list: the later
\* of the two emissions happened with the other user's session connected.
C3_Witness ==
    \E s1, s2 \in Sockets :
        /\ conn[s1].state = "connected" /\ conn[s2].state = "connected"
        /\ conn[s1].userID # conn[s2].userID
        /\ received[s1] # << >> /\ received[s2] # << >>

\* The mapping getMonitorJSONList builds for a user from the table.
ListOf(userID) ==
    [ id \in { r.id : r \in { q \in store : q.user_id = userID } } |->
        LET r == CHOOSE q \in store : q.id = id
        IN  [ id |-> r.id, name |-> r.name, weight |-> r.weight ] ]

\* C4: a sendMonitorList(session) that succeeds has emitted, once, the list
\* of the session's user to every session that was in that user's room when
\* it emitted, and has returned that same list.
C4_EmitToRoom ==
    \A t \in DOMAIN tasks :
        (Done(t) /\ tasks[t].kind = "send") =>
            /\ tasks[t].userID = conn[tasks[t].socket].userID
            /\ tasks[t].ret = ListOf(tasks[t].userID)
            /\ \A s \in tasks[t].roomAtEmit :
                  /\ Cardinality(From(s, t)) = 1
                  /\ \A i \in From(s, t) : received[s][i].payload = tasks[t].ret

\* A sendMonitorList emitted a list of two monitors to a room of two
\* sessions: one of them had not asked.
C4_Witness ==
    \E t \in DOMAIN tasks :
        /\ Done(t) /\ tasks[t].kind = "send"
        /\ Cardinality(tasks[t].roomAtEmit) >= 2
        /\ Cardinality(DOMAIN tasks[t].ret) >= 2
        /\ \E s \in tasks[t].roomAtEmit : s # tasks[t].socket /\ From(s, t) # {}

\* C7: when R.find or a monitor.toJSON() fails, sendMonitorList (and the
\* getMonitorJSONList in it) fails with that same error: the error is not
\* swallowed, R.find is not called again, and the invocation emits nothing.
C7_ErrorsPropagate ==
    \A t \in DOMAIN tasks :
        /\ tasks[t].raised # Null =>
              /\ Failed(t)
              /\ tasks[t].error = tasks[t].raised
              /\ tasks[t].finds = 1
              /\ \A s \in Sockets : From(s, t) = {}
        /\ Failed(t) => tasks[t].raised \in Errors

\* A toJSON failed in a sendMonitorList of a user whose room holds a
\* session.
C7_Witness ==
    \E t \in DOMAIN tasks :
        /\ Failed(t) /\ tasks[t].kind = "send"
        /\ tasks[t].error = "E_JSON"
        /\ rooms[tasks[t].userID] # {}

(***************************************************************************)
(* The query.                                                              *)
(***************************************************************************)
\* The ids of a sequence of rows.
IdsOf(q) == [ i \in DOMAIN q |-> q[i].id ]

\* C5, as stated: the result of getMonitorJSONList lists the user's
\* monitors by weight descending, ties by name ascending: its keys come in
\* the order of the ids of the rows so ordered.
C5_ResultOrder ==
    \A t \in DOMAIN tasks :
        Done(t) =>
            \E q \in SortedSeqs({ r \in store : r.user_id = tasks[t].userID }) :
                ObjectKeys(tasks[t].ret) = IdsOf(q)

\* C5, amended: getMonitorJSONList fetches the user's monitors, and
\* serialises them one after the other, by weight descending, ties by name
\* ascending (3, 2, 1 for the monitors 1 b 5, 2 a 5, 3 c 9); the result is a
\* mapping keyed by monitor id, and its keys come in ascending order of the
\* ids, not in the order of the query.
C5_QueryOrder ==
    \A t \in DOMAIN tasks :
        /\ tasks[t].pc = "toJSON" =>
              LET b == tasks[t].beans IN
              /\ { b[i] : i \in DOMAIN b } = { r \in store : r.user_id = tasks[t].userID }
              /\ Len(b) = Cardinality({ r \in store : r.user_id = tasks[t].userID })
              /\ \A i, j \in DOMAIN b :
                    i < j =>
                        \/ b[i].weight > b[j].weight
                        \/ /\ b[i].weight = b[j].weight
                           /\ NameRank(b[i].name) <= NameRank(b[j].name)
              /\ DOMAIN tasks[t].result = { b[i].id : i \in 1..(tasks[t].idx - 1) }
        /\ Done(t) =>
              LET keys == ObjectKeys(tasks[t].ret) IN
              \A i, j \in DOMAIN keys : i < j => keys[i] < keys[j]

\* The monitors 1 b 5, 2 a 5 and 3 c 9 of one user were fetched as 3, 2, 1,
\* and the last of them is being serialised.
C5_Witness ==
    \E t \in DOMAIN tasks :
        /\ tasks[t].pc = "toJSON" /\ tasks[t].idx = Len(tasks[t].beans)
        /\ tasks[t].beans =
              << [id |-> 3, user_id |-> tasks[t].userID, name |-> "c", weight |-> 9],
                 [id |-> 2, user_id |-> tasks[t].userID, name |-> "a", weight |-> 5],
                 [id |-> 1, user_id |-> tasks[t].userID, name |-> "b", weight |-> 5] >>

\* C6: the keys of the mapping a successful getMonitorJSONList(userID)
\* returns are exactly the ids of the monitors of that user, and each key
\* maps to the serialised form of the monitor with that id.
C6_KeySet ==
    \A t \in DOMAIN tasks :
        Done(t) =>
            /\ DOMAIN tasks[t].ret = { r.id : r \in { q \in store : q.user_id = tasks[t].userID } }
            /\ \A id \in DOMAIN tasks[t].ret :
                  \E r \in store :
                      /\ r.id = id /\ r.user_id = tasks[t].userID
                      /\ tasks[t].ret[id] = [ id |-> r.id, name |-> r.name, weight |-> r.weight ]

\* A getMonitorJSONList returned for a user with two monitors while the
\* table also holds a monitor of another user.
C6_Witness ==
    \E t \in DOMAIN tasks :
        /\ Done(t) /\ tasks[t].kind = "get"
        /\ Cardinality(DOMAIN tasks[t].ret) >= 2
        /\ \E r \in store : r.user_id # tasks[t].userID

(***************************************************************************)
(* The resolver.                                                           *)
(***************************************************************************)
IpReturned(t) == ipTasks[t].pc = "returned"

\* The raw address without everything up to its last colon.
NormalizedRaw == Str(StripToLastColon(ipSocket.remoteAddress.s))

\* C8: with trustProxy false the address getClientIP returns is the
\* normalized raw address, and it is the address the call would have
\* returned under any other x-forwarded-for and x-real-ip headers.
C8_UntrustedIgnoresHeaders ==
    \A t \in DOMAIN ipTasks :
        (IpReturned(t) /\ ~ipTasks[t].trust) =>
            /\ ipTasks[t].ret = NormalizedRaw
            /\ \A h1, h2 \in HeaderValues :
                  Resolve([ipSocket EXCEPT !.xForwardedFor = h1, !.xRealIp = h2],
                          ipTasks[t].clientIP, ipTasks[t].trust) = ipTasks[t].ret

\* An untrusted call returned on a socket whose raw address has a prefix
\* and whose x-forwarded-for header names another address.
C8_Witness ==
    \E t \in DOMAIN ipTasks :
        /\ IpReturned(t) /\ ~ipTasks[t].trust
        /\ TruthyV(ipSocket.xForwardedFor)
        /\ ipSocket.remoteAddress = Str(<<":", ":", "ffff", ":", "10.0.0.5">>)
        /\ ipTasks[t].ret = Str(<<"10.0.0.5">>)

\* C9, as stated: with trustProxy true getClientIP returns the first header
\* that is present, x-forwarded-for before x-real-ip, whatever its value,
\* and the normalized raw address only when neither is present.
C9_PresentHeaderWins ==
    \A t \in DOMAIN ipTasks :
        (IpReturned(t) /\ ipTasks[t].trust) =>
            ipTasks[t].ret =
                IF ipSocket.xForwardedFor.t = "string" THEN ipSocket.xForwardedFor
                ELSE IF ipSocket.xRealIp.t = "string" THEN ipSocket.xRealIp
                ELSE NormalizedRaw

\* C9, amended: with trustProxy true a getClientIP that returns, returns
\* the first header whose value is a non-empty string, x-forwarded-for
\* before x-real-ip, and the normalized raw address only when neither
\* header has a non-empty value: a header that is present but empty is
\* passed over like an absent one.
C9_FirstNonEmptyHeader ==
    \A t \in DOMAIN ipTasks :
        (IpReturned(t) /\ ipTasks[t].trust) =>
            ipTasks[t].ret =
                IF ipSocket.xForwardedFor.t = "string" /\ Len(ipSocket.xForwardedFor.s) > 0
                THEN ipSocket.xForwardedFor
                ELSE IF ipSocket.xRealIp.t = "string" /\ Len(ipSocket.xRealIp.s) > 0
                THEN ipSocket.xRealIp
                ELSE NormalizedRaw

\* A trusted call returned x-real-ip on a socket whose x-forwarded-for is
\* present and empty.
C9_Witness ==
    \E t \in DOMAIN ipTasks :
        /\ IpReturned(t) /\ ipTasks[t].trust
        /\ ipSocket.xForwardedFor = Str(<< >>)
        /\ ipSocket.xRealIp = Str(<<"5.6.7.8">>)
        /\ ipTasks[t].ret = Str(<<"5.6.7.8">>)

\* C10: no getClientIP call fails, whatever the raw address, the headers
\* and the setting.
C10_NeverFails ==
    \A t \in DOMAIN ipTasks : ipTasks[t].pc # "rejected"

(***************************************************************************)
(* The error log.                                                          *)
(***************************************************************************)
SinkFailed(i) == streams[i].state = "failed"

Echoed(stream) == stream.outputToConsole

\* C11: when error.log cannot be opened or written, errorLog still returns
\* normally: the failure of the sink is reported by log.info ("Cannot write
\* to error.log"), once, and nowhere else, it is never thrown, and stderr
\* holds the error of every call made with outputToConsole, whether the
\* sink of that call failed or not.
C11_SinkFailureContained ==
    /\ \A i \in DOMAIN streams :
          /\ streams[i].outcome = "returned"
          /\ ~streams[i].uncaught
          /\ SinkFailed(i) <=> streams[i].reported
    /\ infoLog = [ k \in 1..Cardinality({ i \in DOMAIN streams : SinkFailed(i) }) |->
                      [module |-> "", msg |-> "Cannot write to error.log"] ]
    /\ LET echoed == SelectSeq(streams, Echoed)
       IN  stderr = [ k \in DOMAIN echoed |-> Format(echoed[k].error) ]

\* error.log could not be opened in a call made with an Error and
\* outputToConsole: the Error is on stderr and the failure in the info log.
C11_Witness ==
    \E i \in DOMAIN streams :
        /\ SinkFailed(i)
        /\ streams[i].at = 0
        /\ streams[i].outputToConsole
        /\ streams[i].error.t = "Error"
        /\ \E k \in DOMAIN stderr : stderr[k] = Format(streams[i].error)
        /\ infoLog # << >>
        /\ logFile = << >>

(***************************************************************************)
(* The construction.                                                       *)
(***************************************************************************)
Development == env.NODE_ENV = "development"

\* C12: when dist/index.html cannot be read, outside development the
\* process ends with exit code 1 and no later step of the construction takes
\* effect (no global agent, no socket hub, no instance, no further call); in
\* development the construction goes on, indexHTML stays empty and the
\* process does not exit.  When the document can be read the process never
\* exits, and indexHTML holds it.
C12_ShellDocument ==
    /\ exited.done <=> (\E i \in DOMAIN calls : calls[i].outcome = "exit")
    /\ exited.done => exited.code = 1
    /\ env.indexReadable => ~exited.done
    /\ (~env.indexReadable /\ Development) => ~exited.done
    /\ \A i \in DOMAIN calls :
          /\ calls[i].outcome = "exit" =>
                /\ ~env.indexReadable /\ ~Development
                /\ i = Len(calls)
                /\ instance = NoInstance /\ heap = << >>
                /\ effects.registerGlobalAgent = 0 /\ effects.ioServer = 0
          /\ (~env.indexReadable /\ ~Development) => calls[i].outcome \in {"throw", "exit"}
          /\ calls[i].constructed =>
                /\ heap[calls[i].ret].indexHTML = IF env.indexReadable THEN "<html>" ELSE ""
                /\ heap[calls[i].ret].io = "io"
                /\ effects.registerGlobalAgent = 1 /\ effects.ioServer = 1

\* Outside development dist/index.html could not be read: the process has
\* exited with code 1 in the second call, after a first call that threw.
C12_Witness ==
    /\ Len(calls) = 2
    /\ calls[1].outcome = "throw"
    /\ calls[2].outcome = "exit"
    /\ env.NODE_ENV = "production"
    /\ exited = [done |-> TRUE, code |-> 1]
    /\ effects.readIndex = 1

\* The first of three values that is set.
FirstSet(a, b, c) == IF a # Undefined THEN a ELSE IF b # Undefined THEN b ELSE c

KeyOf(i) == FirstSet(calls[i].args.sslKey, env.UPTIME_KUMA_SSL_KEY, env.SSL_KEY)

CertOf(i) == FirstSet(calls[i].args.sslCert, env.UPTIME_KUMA_SSL_CERT, env.SSL_CERT)

BothPresent(i) == KeyOf(i) # Undefined /\ CertOf(i) # Undefined

\* Call i ran the constructor: no call before it completed a construction.
RanConstructor(i) == \A j \in 1..(i - 1) : ~calls[j].constructed

\* C13: the key and the certificate are each taken from the config, else
\* from UPTIME_KUMA_SSL_KEY / _CERT, else from SSL_KEY / SSL_CERT, else they
\* are absent.  The listener of a constructed server is a TLS listener on
\* that key and certificate when both are present and a plain listener when
\* either is absent; a constructor fails (throws) exactly when both are
\* present and one of the two files cannot be read, and then no server, with
\* a plain listener or any other, comes out of the call.
C13_TransportSelection ==
    \A i \in DOMAIN calls :
        /\ calls[i].constructed =>
              /\ heap[calls[i].ret].httpServer =
                    IF BothPresent(i)
                    THEN [type |-> "https", key |-> KeyOf(i), cert |-> CertOf(i)]
                    ELSE [type |-> "http", key |-> Undefined, cert |-> Undefined]
              /\ BothPresent(i) => {KeyOf(i), CertOf(i)} \subseteq env.readable
        /\ calls[i].outcome = "throw" <=>
              /\ RanConstructor(i)
              /\ BothPresent(i)
              /\ ~({KeyOf(i), CertOf(i)} \subseteq env.readable)
        /\ calls[i].outcome = "throw" =>
              /\ ~calls[i].constructed /\ calls[i].ret = NoInstance
              /\ \A j \in DOMAIN calls : calls[j].constructed => j > i

\* A call whose key came from the environment failed on the unreadable key
\* file; the next call, whose config names another key, got a TLS listener
\* on the key of its config and the certificate of SSL_CERT.
C13_Witness ==
    /\ Len(calls) = 2
    /\ env.UPTIME_KUMA_SSL_KEY = "key.pem" /\ env.SSL_CERT = "alt.pem"
    /\ env.UPTIME_KUMA_SSL_CERT = Undefined
    /\ env.readable = {"alt.pem"}
    /\ calls[1].args = [sslKey |-> Undefined, sslCert |-> Undefined]
    /\ calls[1].outcome = "throw"
    /\ calls[2].args = [sslKey |-> "alt.pem", sslCert |-> Undefined]
    /\ calls[2].constructed
    /\ heap[calls[2].ret].httpServer =
          [type |-> "https", key |-> "alt.pem", cert |-> "alt.pem"]

(***************************************************************************)
(* The broadcast under concurrent changes.                                 *)
(***************************************************************************)
\* The mapping by monitor id of the transport forms of the rows given.
Serialized(rows) ==
    [ id \in { r.id : r \in rows } |-> ToJSON(CHOOSE r \in rows : r.id = id) ]

\* C14: sendMonitorList emits only after its getMonitorJSONList has
\* resolved: whatever a session has received was emitted by an invocation
\* that has returned, and is the whole mapping that invocation built and
\* returned, one entry for every monitor its own query answered; it is never
\* a part of that mapping, and never the list of another query.
C14_EmitAfterResolve ==
    \A s \in Sockets : \A k \in DOMAIN received[s] :
        LET e == received[s][k]
            task == tasks[e.task]
        IN  /\ task.pc = "returned" /\ task.kind = "send"
            /\ e.payload = task.ret
            /\ e.payload = Serialized({ task.fetched[i] : i \in DOMAIN task.fetched })
            /\ Cardinality(DOMAIN e.payload) = Len(task.fetched)

\* A session that had not asked holds a list of two monitors, while
\* another invocation, with one of its two monitors serialised, has emitted
\* nothing.
C14_Witness ==
    \E s \in Sockets, t1, t2 \in DOMAIN tasks :
        /\ tasks[t1].pc = "returned" /\ tasks[t1].socket # s
        /\ \E k \in DOMAIN received[s] :
              received[s][k].task = t1 /\ Cardinality(DOMAIN received[s][k].payload) = 2
        /\ tasks[t2].pc = "toJSON" /\ tasks[t2].idx = 2
        /\ \A q \in Sockets : \A k \in DOMAIN received[q] : received[q][k].task # t2

\* C15: whatever the interleaving of the sendMonitorList invocations of a
\* user with each other and with changes of the user's monitors, every
\* payload delivered is the serialised set of the user's monitors as it was
\* at one moment, the moment R.find answered that invocation: no payload
\* mixes monitors of two moments, although the invocation is suspended at
\* the query and at every serialisation.
C15_NonTorn ==
    \A s \in Sockets : \A k \in DOMAIN received[s] :
        received[s][k].payload = Serialized(tasks[received[s][k].task].snapshot)

\* Two invocations of one user ran side by side with an edit: the one
\* called first queried after the edit, the one called second before it,
\* and a session holds both lists, each of two monitors.
C15_Witness ==
    \E s \in Sockets : \E k1, k2 \in DOMAIN received[s] :
        LET e1 == received[s][k1]
            e2 == received[s][k2]
        IN  /\ e1.task < e2.task
            /\ DOMAIN e1.payload = {1, 3} /\ DOMAIN e2.payload = {1, 3}
            /\ e1.payload[1].weight = 9
            /\ e2.payload[1].weight = 5

\* Every session in the room of user u holds, as the payload delivered to
\* it last, the list of the user's monitors as they are now.
Converged(u) ==
    \A s \in rooms[u] :
        /\ received[s] # << >>
        /\ received[s][Len(received[s])].payload = Serialized(RowsOf(u))

\* Every invocation of the user of the remembered moment has ended, and the
\* user's room and rows are as they were at that moment.  (Sessions only
\* join and weights are only raised, so what is equal has not changed.)
Settled ==
    /\ mark.set
    /\ InFlight(mark.userID) = {}
    /\ rooms[mark.userID] = mark.room
    /\ RowsOf(mark.userID) = mark.rows

\* The invocations that were in flight at the remembered moment or were
\* called after it.
Since ==
    mark.inFlight \cup
        { t \in DOMAIN tasks : t > mark.called /\ tasks[t].userID = mark.userID }

\* C16, as stated: once every sendMonitorList invocation of a user that was
\* in flight has ended, the user's room and monitors not having changed
\* meanwhile, every session in the room holds the same payload as the one
\* delivered to it last, the list of the user's monitors as they are now.
C16_AllEnded == Settled => Converged(mark.userID)

\* C16, amended: the same, when at least one of those invocations has ended
\* without error.  (An invocation whose query or serialisation fails emits
\* nothing: when all of them fail the sessions hold what they held before.)
C16_Convergence ==
    (Settled /\ \E t \in Since : tasks[t].pc = "returned") => Converged(mark.userID)

\* Two sessions hold the list of the monitors as they are now; one of them
\* had received another list before, from an invocation that ended before
\* a monitor was edited.
C16_Witness ==
    /\ Settled
    /\ Cardinality(rooms[mark.userID]) = 2
    /\ Converged(mark.userID)
    /\ \E t \in Since : tasks[t].pc = "returned"
    /\ \E s \in rooms[mark.userID] :
          /\ Len(received[s]) = 2
          /\ received[s][1].payload # received[s][2].payload

(***************************************************************************)
(* Disconnects.                                                            *)
(***************************************************************************)
\* The session that called invocation t had left when t emitted.
RequesterGone(t) == tasks[t].socket \notin tasks[t].roomAtEmit

\* C17: a sendMonitorList whose session disconnects while the invocation
\* is suspended goes on: it can still resume, it fails only when R.find or
\* toJSON fails, and when it succeeds it returns the user's list, delivers
\* nothing to the session that left, and delivers the list, once, to every
\* session that was in the user's room when it emitted.
C17_DisconnectInFlight ==
    \A t \in DOMAIN tasks :
        (tasks[t].kind = "send" /\ conn[tasks[t].socket].state = "closed") =>
            /\ tasks[t].pc = "find" => ENABLED FindResolve(t)
            /\ tasks[t].pc = "toJSON" => ENABLED ToJSONResolve(t)
            /\ Failed(t) => tasks[t].raised \in Errors
            /\ (Done(t) /\ RequesterGone(t)) =>
                  /\ tasks[t].ret = ListOf(tasks[t].userID)
                  /\ From(tasks[t].socket, t) = {}
                  /\ \A s \in tasks[t].roomAtEmit :
                        /\ Cardinality(From(s, t)) = 1
                        /\ \A i \in From(s, t) : received[s][i].payload = tasks[t].ret

\* A session asked for the list and left before it was emitted: the other
\* session of the user holds the list, the one that left holds nothing.
C17_Witness ==
    \E t \in DOMAIN tasks : \E s \in Sockets :
        /\ Done(t) /\ tasks[t].kind = "send"
        /\ RequesterGone(t)
        /\ conn[tasks[t].socket].state = "closed"
        /\ received[tasks[t].socket] = << >>
        /\ s \in tasks[t].roomAtEmit
        /\ From(s, t) # {}
        /\ Cardinality(DOMAIN tasks[t].ret) >= 2

(***************************************************************************)
(* The setting.                                                            *)
(***************************************************************************)
\* C18: every getClientIP call reads the trustProxy setting itself, and no
\* call uses a value an earlier call has read: a call that has returned has
\* acted on the value the settings store held when the call read it, giving
\* the first non-empty header when that value was true and the normalized
\* raw address when it was false, whatever the setting was before.
C18_SettingReadPerCall ==
    \A t \in DOMAIN ipTasks :
        IpReturned(t) =>
            /\ ipTasks[t].trust = ipTasks[t].held
            /\ ipTasks[t].ret =
                  IF ipTasks[t].held /\ TruthyV(ipSocket.xForwardedFor)
                  THEN ipSocket.xForwardedFor
                  ELSE IF ipTasks[t].held /\ TruthyV(ipSocket.xRealIp)
                  THEN ipSocket.xRealIp
                  ELSE NormalizedRaw

\* Two calls on one socket returned different addresses: the setting was
\* false when the first read it and true when the second did.
C18_Witness ==
    /\ Len(ipTasks) = 2
    /\ IpReturned(1) /\ IpReturned(2)
    /\ ~ipTasks[1].held /\ ipTasks[2].held
    /\ ipTasks[1].ret = Str(<<"10.0.0.5">>)
    /\ ipTasks[2].ret = Str(<<"1.2.3.4">>)

(***************************************************************************)
(* The frame.                                                              *)
(***************************************************************************)
\* What the claim names of an UptimeKumaServer object.
Kept(obj) == [ indexHTML |-> obj.indexHTML, httpServer |-> obj.httpServer,
               io |-> obj.io, monitorList |-> obj.monitorList ]

\* C19: once the instance is set, the instance stays the same object, and
\* its indexHTML, httpServer, io and monitorList are as the constructor left
\* them, and no step of getInstance, sendMonitorList, getMonitorJSONList,
\* getClientIP or errorLog changes any of them.
C19_Frame ==
    /\ [](instance # NoInstance =>
              Kept(heap[instance]) = Kept(Construct(instance, heap[instance].args).obj))
    /\ [][instance # NoInstance =>
              /\ instance' = instance
              /\ Kept(heap'[instance]) = Kept(heap[instance])]_vars

\* On the instance, constructed with a plain listener, a getInstance with
\* a TLS config, a sendMonitorList, a getClientIP and an errorLog have run to
\* their end.
C19_Witness ==
    /\ instance # NoInstance
    /\ heap[instance].httpServer.type = "http"
    /\ Len(calls) >= 2
    /\ calls[Len(calls)].args.sslKey = "key.pem" /\ calls[Len(calls)].outcome = "returned"
    /\ \E t \in DOMAIN tasks : Done(t) /\ tasks[t].kind = "send" /\ received[1] # << >>
    /\ \E t \in DOMAIN ipTasks : IpReturned(t)
    /\ \E i \in DOMAIN streams : streams[i].state = "closed"

(***************************************************************************)
(* The log file.                                                           *)
(***************************************************************************)
\* Stream i has written its text.
Written(i) == streams[i].state \in {"written", "closed"}

\* What stream i has written, as it stands in the file now.
Entry(i) == SubSeq(logFile, streams[i].at, streams[i].at + Len(streams[i].queued) - 1)

\* The stream of call i holds an open file handle.
HoldsHandle(i) == i \in DOMAIN streams /\ streams[i].handle

LineBreaks(text) == Cardinality({ k \in DOMAIN text : text[k] = "\n" })

\* C20, as stated: what a call whose sink works has appended is one line,
\* "[<timestamp>] <formatted error>" with the line break that ends it.
C20_OneLinePerCall ==
    \A i \in DOMAIN streams :
        Written(i) =>
            /\ Entry(i) = <<"[", streams[i].dateTime, "] ">> \o Format(streams[i].error) \o <<"\n">>
            /\ LineBreaks(Entry(i)) = 1

\* C20, amended: the file only grows, and only at its end; a call whose
\* sink works appends, in one piece, exactly one entry: "[", the time of the
\* call, "] ", the formatted error and a line break, which is one line when
\* the formatted error holds no line break and several when it does (an
\* Error is formatted with its stack); what was written earlier stays as it
\* is; and every stream that has opened a handle closes it again.
C20_AppendOnly ==
    /\ [](\A i \in DOMAIN streams :
             /\ Written(i) =>
                   /\ streams[i].at > 0
                   /\ Entry(i) = <<"[", streams[i].dateTime, "] ">>
                                    \o Format(streams[i].error) \o <<"\n">>
                   /\ LineBreaks(Entry(i)) = 1 + LineBreaks(Format(streams[i].error))
             /\ streams[i].state \in {"closed", "failed"} => ~streams[i].handle
             /\ ~Written(i) => streams[i].at = 0)
    /\ [][\/ logFile' = logFile
          \/ \E i \in DOMAIN streams :
                /\ ~Written(i) /\ streams'[i].state = "written"
                /\ logFile' = logFile \o LogLine(streams[i].dateTime, streams[i].error)]_vars
    /\ \A i \in 1..MaxLogCalls :
          HoldsHandle(i) ~> ~HoldsHandle(i)

\* Two calls were made at different times on a file that held a line, the
\* second with an Error; both streams are closed and the file holds the old
\* line and the two entries, the entry of the Error over two lines.
C20_Witness ==
    /\ Len(streams) = 2
    /\ streams[1].state = "closed" /\ streams[2].state = "closed"
    /\ streams[1].dateTime # streams[2].dateTime
    /\ streams[2].error.t = "Error"
    /\ LineBreaks(Entry(2)) = 2
    /\ \E old \in OldLines :
          /\ old # << >>
          /\ logFile = old \o streams[1].queued \o streams[2].queued

=============================================================================
